---- MODULE Spec2Model ----
(***************************************************************************)
(* Vivid Story: the streaming story pipeline (app/main.py stream_story),   *)
(* its text stage (app/ai_logic.py) and its per-page media stage           *)
(* (app/image_gen.py, app/media_gen.py).                                   *)
(*                                                                         *)
(* Text is modelled as a sequence of tokens, each standing for a fixed     *)
(* piece of text; the raw text is their concatenation:                     *)
(*   "P1" = "Page 1:"   "P2" = "Page 2:"   "P3" = "Page 3:"                *)
(*   "P0" = "Page 0:"   "P7" = "Page 7:"                                   *)
(*   "Q1" = "Page1:"    (matched by Page\s*1: but not by Page\s+(\d+):)    *)
(*   "a"  = a word      "nl" = "\n"        "sp" = " "                      *)
(*   "b"  = another word                                                   *)
(* A media reference is a sequence of string pieces: <<>> is "",           *)
(* <<"data/", f>> a saved file, <<"http://", u>> a URL of the back-end.    *)
(*                                                                         *)
(* The back-ends' HTTP calls are synchronous (requests.post, the ElevenLabs *)
(* client) inside coroutines: an attempt blocks the event loop, and only   *)
(* asyncio.sleep between attempts lets another task run. The API keys are  *)
(* taken as configured, and the references a back-end returns as strings.  *)
(*                                                                         *)
(* Spec is a run of stream_story. FnSpec is one call of a text function    *)
(* (extract_final_story, story_to_pages_json, generate_full_story,         *)
(* simple_split_story) on a text of up to MaxTextLen pieces.               *)
(***************************************************************************)
EXTENDS Integers, Sequences, FiniteSets, TLC

\* ------------------------------------------------------------------ bounds
MaxLines == 2
MaxNum == 2

\* ------------------------------------------------------- program constants
MAX_RETRIES == 3
RETRY_DELAY == 2
NUM_SCENES == 6

\* -------------------------------------------------------------- text stage
IsSpace(t) == t \in {"nl", "sp"}

\* a match of Page\s*1: (extract_final_story's marker)
IsMark1(t) == t \in {"P1", "Q1"}

\* a match of Page\s+(\d+): (story_to_pages_json's marker)
IsPageMark(t) == t \in {"P1", "P2", "P3", "P0", "P7"}

\* int(page_num) of a marker
Ordinal(t) ==
    CASE t = "P1" -> 1 [] t = "P2" -> 2 [] t = "P3" -> 3 [] t = "P0" -> 0 [] t = "P7" -> 7

\* str.strip() at the right end
RECURSIVE RStrip(_)
RStrip(s) ==
    IF s = <<>> THEN <<>>
    ELSE IF IsSpace(s[Len(s)]) THEN RStrip(SubSeq(s, 1, Len(s) - 1))
    ELSE s

\* str.strip() at the left end
RECURSIVE LStrip(_)
LStrip(s) ==
    IF s = <<>> THEN <<>>
    ELSE IF IsSpace(s[1]) THEN LStrip(Tail(s))
    ELSE s

\* mutant: content.strip(), the whitespace inside the content kept
StripOnly(s) == RStrip(LStrip(s))

\* " ".join(content.split()): every whitespace run becomes one space, none
\* at either end
RECURSIVE JoinSplit(_)
JoinSplit(s) ==
    LET t == LStrip(s) IN
    IF t = <<>> THEN <<>>
    ELSE LET rest == JoinSplit(Tail(t)) IN
         IF Len(t) > 1 /\ IsSpace(t[2]) /\ rest # <<>>
         THEN <<t[1], "sp">> \o rest
         ELSE <<t[1]>> \o rest

\* mutant: without a match the whole text is taken (return text.strip())
NoMarkerWholeText(text) == [found |-> TRUE, story |-> RStrip(text)]

NoMarker(text) == [found |-> FALSE, story |-> <<>>]

\* mutant: the text from the first match of Page\s*1: on
extract_first_story(text) ==
    LET matches == {i \in 1..Len(text) : IsMark1(text[i])} IN
    IF matches = {} THEN NoMarker(text)
    ELSE LET start_index == CHOOSE i \in matches : \A j \in matches : i <= j IN
         [found |-> TRUE, story |-> RStrip(SubSeq(text, start_index, Len(text)))]

\* extract_final_story: the text from the last match of Page\s*1: on,
\* stripped; None (found = FALSE) without a match
extract_final_story(text) ==
    LET matches == {i \in 1..Len(text) : IsMark1(text[i])} IN
    IF matches = {} THEN NoMarker(text)
    ELSE LET start_index == CHOOSE i \in matches : \A j \in matches : j <= i IN
         [found |-> TRUE, story |-> RStrip(SubSeq(text, start_index, Len(text)))]

\* the first index >= pos holding a page marker, 0 if none
FirstMark(s, pos) ==
    LET ms == {i \in pos..Len(s) : IsPageMark(s[i])} IN
    IF ms = {} THEN 0 ELSE CHOOSE i \in ms : \A j \in ms : i <= j

\* :\s* is greedy: the content starts at the first non-space after the marker
ContentStart(s, m) ==
    LET ns == {i \in (m + 1)..Len(s) : ~IsSpace(s[i])} IN
    IF ns = {} THEN Len(s) + 1 ELSE CHOOSE i \in ns : \A j \in ns : i <= j

\* mutant: the content ends before the next page marker, wherever it stands
ContentEndAtMarker(s, k) ==
    LET bs == {j \in k..Len(s) : IsPageMark(s[j])} IN
    IF bs = {} THEN Len(s) + 1 ELSE CHOOSE j \in bs : \A i \in bs : j <= i

\* (.*?)(?=\nPage\s+\d+:|\Z): the content ends before the first newline that
\* a page marker follows at once, or at the end of the text
ContentEnd(s, k) ==
    LET bs == {j \in k..(Len(s) - 1) : s[j] = "nl" /\ IsPageMark(s[j + 1])} IN
    IF bs = {} THEN Len(s) + 1 ELSE CHOOSE j \in bs : \A i \in bs : j <= i

\* re.findall from position pos on, each match made a page
RECURSIVE PagesFrom(_, _)
PagesFrom(s, pos) ==
    LET m == FirstMark(s, pos) IN
    IF m = 0 THEN <<>>
    ELSE LET k == ContentStart(s, m)
             e == ContentEnd(s, k)
         IN  <<[page |-> Ordinal(s[m]), text |-> JoinSplit(SubSeq(s, k, e - 1))]>>
             \o (IF e > Len(s) THEN <<>> ELSE PagesFrom(s, e))

\* mutant: the pages are numbered by their position in the list
story_to_pages_renumbered(story_text) ==
    LET pages == PagesFrom(story_text, 1) IN
    [k \in 1..Len(pages) |-> [page |-> k, text |-> pages[k].text]]

story_to_pages_json(story_text) == PagesFrom(story_text, 1)

BackendError == [ok |-> FALSE, content |-> <<>>]

\* mutant: without a page-1 marker the whole text is parsed
generate_full_story_lenient(resp) ==
    IF ~resp.ok THEN [raised |-> TRUE, pages |-> <<>>]
    ELSE LET x == extract_final_story(resp.content) IN
         IF ~x.found
         THEN [raised |-> FALSE, pages |-> story_to_pages_json(resp.content)]
         ELSE [raised |-> FALSE, pages |-> story_to_pages_json(x.story)]

\* generate_full_story: raises when generate_story raises, and when
\* extract_final_story returned None (re.findall on None is a TypeError)
generate_full_story(resp) ==
    IF ~resp.ok THEN [raised |-> TRUE, pages |-> <<>>]
    ELSE LET x == extract_final_story(resp.content) IN
         IF ~x.found THEN [raised |-> TRUE, pages |-> <<>>]
         ELSE [raised |-> FALSE, pages |-> story_to_pages_json(x.story)]

\* ------------------------------------------------ image_gen.py: scene split
\* str.strip()
Strip(s) == RStrip(LStrip(s))

\* str.split('\n'): the pieces between newlines, empty ones included
RECURSIVE SplitNl(_)
SplitNl(s) ==
    LET is == {i \in 1..Len(s) : s[i] = "nl"} IN
    IF is = {} THEN <<s>>
    ELSE LET i == CHOOSE i \in is : \A j \in is : i <= j IN
         <<SubSeq(s, 1, i - 1)>> \o SplitNl(SubSeq(s, i + 1, Len(s)))

\* mutant: blank lines are kept
AllLines(story) ==
    LET ls == SplitNl(Strip(story)) IN [i \in 1..Len(ls) |-> Strip(ls[i])]

\* [line.strip() for line in story.strip().split('\n') if line.strip()]
NonBlankLines(story) ==
    LET ls == SplitNl(Strip(story)) IN
    SelectSeq([i \in 1..Len(ls) |-> Strip(ls[i])], LAMBDA l : l # <<>>)

\* the generic scene of line 192
Placeholder == <<"A beautiful scene">>

\* mutant: the list is padded with its last line
RECURSIVE RepeatLast(_, _)
RepeatLast(lines, k) ==
    IF k <= 1 THEN lines
    ELSE RepeatLast(lines, k - 1) \o [i \in 1..Len(lines) |-> lines[Len(lines)]]

\* lines * k
RECURSIVE Repeat(_, _)
Repeat(lines, k) == IF k <= 0 THEN <<>> ELSE lines \o Repeat(lines, k - 1)

\* seq[:n] for n >= 0
Take(seq, n) == SubSeq(seq, 1, IF n < Len(seq) THEN n ELSE Len(seq))

\* simple_split_story
simple_split_story(story, num_scenes) ==
    LET lines == NonBlankLines(story) IN
    IF Len(lines) >= num_scenes THEN Take(lines, num_scenes)
    ELSE LET scenes == IF lines # <<>>
                       THEN Repeat(lines, (num_scenes \div Len(lines)) + 1)
                       ELSE <<Placeholder>>
         IN  Take(scenes, num_scenes)

\* ---------------------------------------------------------- back-end texts
LineShapes ==
    { <<"P1", "a">>, <<"Q1", "a">>, <<"Q1", "P3", "a">>, <<"P2", "a">>,
      <<"P3", "a">>, <<"P2">> }

RECURSIVE JoinLines(_)
JoinLines(ls) ==
    IF ls = <<>> THEN <<>>
    ELSE IF Len(ls) = 1 THEN ls[1]
    ELSE ls[1] \o <<"nl">> \o JoinLines(Tail(ls))

RawTexts ==
    { JoinLines(ls) : ls \in UNION { [1..n -> LineShapes] : n \in 0..MaxLines } }

BackendResponses ==
    {BackendError} \cup { [ok |-> TRUE, content |-> t] : t \in RawTexts }

\* ------------------------------------------------------- request parameters
NumImages == (-1)..MaxNum

\* mutant: the slice takes one entry too many
SliceInclusive(pages, n) ==
    SubSeq(pages, 1, IF n + 1 < Len(pages) THEN n + 1 ELSE Len(pages))

\* mutant: every page is processed, num_images ignored
SliceAll(pages, n) == pages

\* story_pages[:num_images]
Slice(pages, n) ==
    IF n >= 0 THEN SubSeq(pages, 1, IF n < Len(pages) THEN n ELSE Len(pages))
    ELSE SubSeq(pages, 1, IF Len(pages) + n > 0 THEN Len(pages) + n ELSE 0)

\* ------------------------------------------------------------- media stage
NoRef == <<>>
SavedImage == <<"data/", "image.webp">>
SavedAudio == <<"data/", "story.mp3">>
RemoteImage == <<"http://", "img">>

\* what one HTTP attempt of call_dedalus_api can end with
Outcomes == {"200", "429", "401", "400", "500", "timeout", "reqerr"}

\* what a 200 response can hold: b64_json that is saved, b64_json whose save
\* fails, a url, or no usable data
Bodies == {"b64", "unsaved", "url", "nodata"}

\* call_dedalus_api, one pass of its loop body for the 0-based attempt
AfterAttempt(attempt, outcome) ==
    CASE outcome = "200" -> "return"
      [] outcome = "429" -> "sleep"
      [] outcome = "401" -> "raise"
      [] OTHER -> IF attempt < MAX_RETRIES - 1 THEN "sleep" ELSE "raise"

\* the seconds call_dedalus_api sleeps after a failed attempt: lines 107 and 109
\* for a 429, lines 117, 124 and 130 for every other failure
WaitTime(attempt, outcome) ==
    IF outcome = "429" THEN RETRY_DELAY * (2 ^ attempt) ELSE RETRY_DELAY

\* mutant: the loop has one pass too many
HasNextAttemptInclusive(attempt) == attempt + 1 <= MAX_RETRIES

\* for attempt in range(MAX_RETRIES): is there another pass after this one
HasNextAttempt(attempt) == attempt + 1 < MAX_RETRIES

\* the reference generate_image / generate_image_for_page draws from a 200
\* response
ResponseRef(body) ==
    CASE body = "b64" -> SavedImage
      [] body = "url" -> RemoteImage
      [] OTHER -> NoRef

\* what generate_master_prompt can return (the back-end's revised_prompt, or
\* its own initial prompt): a descriptor short enough for the page text to
\* follow it within the first 990 characters of the combined prompt, or one of
\* 854 characters or more, after which none of the page text is left
Styles == {"style", "longstyle"}

\* mutant: the page's image call is made without the master style
ImagePromptPlain(master, page_text) == [style |-> "None", text |-> page_text]

\* the prompt of generate_image_for_page's call: with a master prompt
\* (BASE_ART_STYLE master. In this scene: page_text)[:990], else page_text
ImagePrompt(master, page_text) ==
    IF master = "None" THEN [style |-> "None", text |-> page_text]
    ELSE [style |-> master,
          text |-> IF master = "longstyle" THEN <<>> ELSE page_text]

\* mutant: generate_image_for_page lets the exception out
ImageCatchNone(r) == r

\* generate_image_for_page's except Exception: an exception becomes ""
ImageCatch(r) == IF r.exc THEN [exc |-> FALSE, url |-> NoRef] ELSE r

\* generate_story_audio's except Exception (None) and generate_audio_for_page's
\* path or ""
AudioCatch(r) == IF r.exc THEN [exc |-> FALSE, url |-> NoRef] ELSE r

\* the isinstance(x, Exception) branches after asyncio.gather
GatherResult(r) == IF r.exc THEN NoRef ELSE r.url

\* _to_public_media_url
_to_public_media_url(relative_path, API_BASE_URL) ==
    IF relative_path = <<>> THEN <<>>
    ELSE IF relative_path[1] = "http://" THEN relative_path
    ELSE IF API_BASE_URL # <<>>
         THEN API_BASE_URL \o <<"/api/files/">>
              \o (IF relative_path[1] = "data/" THEN Tail(relative_path)
                  ELSE relative_path)
    ELSE relative_path

\* ------------------------------------------------------------------ events
ErrorEvent == [type |-> "error"]
StoryEvent(pages) == [type |-> "story", pages |-> pages]
CompleteEvent == [type |-> "complete"]

\* mutant: the story event is not yielded before the media stage
AfterStage1Nothing(pages) == <<>>

\* the events yielded right after Stage 1 returned a non-empty page list
AfterStage1(pages) == <<StoryEvent(pages)>>

\* mutant: scene_index is the page's ordinal
SceneEventOneBased(page, image_url, audio_url, base) ==
    [type |-> "scene",
     scene_index |-> page.page,
     page |-> page.page,
     scene_text |-> page.text,
     image_url |-> _to_public_media_url(image_url, base),
     audio_url |-> _to_public_media_url(audio_url, base)]

\* scene_result of the loop body
SceneEvent(page, image_url, audio_url, base) ==
    [type |-> "scene",
     scene_index |-> page.page - 1,
     page |-> page.page,
     scene_text |-> page.text,
     image_url |-> _to_public_media_url(image_url, base),
     audio_url |-> _to_public_media_url(audio_url, base)]

\* ------------------------------------------------------------------- state
VARIABLES
    pc,         \* where event_generator is: start, text, master, stage2, done
    events,     \* the events yielded so far
    num_images, use_style_consistency, base_url,   \* the request, the deployment
    story_pages,
    master_prompt,
    mst,        \* the master-style call_dedalus_api call
    task,       \* per entry of pages_to_process: the page's gather
    s1,         \* how Stage 1 ended: pending, backend, nomarker, empty, ok
    calls,      \* external calls started so far, by kind
    completed,  \* the positions whose media finished, in that order
    fn,         \* a direct call of a text function: its input, then its result
    api,        \* a direct call of call_dedalus_api: its attempts so far
    ui,         \* the Streamlit page: the prompt typed, what Generate did
    gen,        \* a direct call of generate_images
    conn        \* the connection the events of stream_story are sent over

\* the variables of stream_story
stream == <<pc, events, num_images, use_style_consistency, base_url, story_pages,
            master_prompt, mst, task, s1, calls, completed>>

vars == <<stream, fn, api, ui, gen, conn>>

pages_to_process == Slice(story_pages, num_images)

Positions == 1..Len(task)

IdleCall == [st |-> "idle", attempt |-> 0]

\* no image call made
NoPrompt == [style |-> "None", text |-> <<>>]
NewTask ==
    [st |-> "new",
     first |-> "none",
     img |-> [st |-> "idle", attempt |-> 0, exc |-> FALSE, url |-> NoRef, ok |-> FALSE,
              prompt |-> NoPrompt],
     aud |-> [st |-> "idle", exc |-> FALSE, url |-> NoRef, ok |-> FALSE]]

\* no direct call of a text function
NoCall ==
    [op |-> "none", text |-> <<>>, n |-> 0, found |-> FALSE, story |-> <<>>,
     raised |-> FALSE, pages |-> <<>>, scenes |-> <<>>]

\* no direct call of call_dedalus_api
NoApiCall == [st |-> "none", attempt |-> 0, log |-> <<>>]

\* no direct call of generate_images
NoGen == [st |-> "none", story |-> <<>>, n |-> 0, scenes |-> <<>>, idx |-> 0,
          master |-> "none", log |-> <<>>, paths |-> <<>>]

\* the consumer stays connected: every event yielded is delivered
Connected == [st |-> "open", delivered |-> 0]

\* st.session_state["scenes"] = [None] * num_images, num_images = NUM_SCENES
NoScenes == [i \in 0..(NUM_SCENES - 1) |-> "None"]

\* the Streamlit page is not part of the run. stream is what stream_generator
\* is going to yield, pos the number of events the loop has taken from it.
NoPage ==
    [st |-> "none", prompt |-> <<>>, via |-> "none", mock |-> FALSE,
     stream |-> <<>>, pos |-> 0, scenes |-> NoScenes, story_complete |-> FALSE,
     final_story |-> <<>>]

Init ==
    /\ pc = "start"
    /\ events = <<>>
    /\ num_images \in NumImages
    /\ use_style_consistency \in BOOLEAN
    /\ base_url \in {<<>>, <<"https://api">>}
    /\ story_pages = <<>>
    /\ master_prompt = "None"
    /\ mst = IdleCall
    /\ task = <<>>
    /\ s1 = "pending"
    /\ calls = [text |-> 0, master |-> 0, image |-> 0, audio |-> 0]
    /\ completed = <<>>
    /\ fn = NoCall
    /\ api = NoApiCall
    /\ ui = NoPage
    /\ gen = NoGen
    /\ conn = Connected

\* requests.post blocks the event loop: while an HTTP call is being made no
\* other coroutine runs
Blocked ==
    \/ mst.st = "http"
    \/ \E p \in Positions : task[p].img.st = "http" \/ task[p].aud.st = "tts"

\* ---------------------------------------------------------------- Stage 1
\* line 295: await generate_story_pages(prompt, style)
Stage1Call ==
    /\ pc = "start"
    /\ pc' = "text"
    /\ calls' = [calls EXCEPT !.text = @ + 1]
    /\ UNCHANGED <<fn, api, ui, gen, conn, events, num_images, use_style_consistency, base_url,
                   story_pages, master_prompt, mst, task, s1, completed>>

\* how the claim's cases name the end of Stage 1
Stage1Kind(resp) ==
    IF ~resp.ok THEN "backend"
    ELSE IF \A i \in 1..Len(resp.content) : ~IsMark1(resp.content[i]) THEN "nomarker"
    ELSE IF story_to_pages_json(extract_final_story(resp.content).story) = <<>>
         THEN "empty"
    ELSE "ok"

\* lines 297-299 and 372-374: an exception or an empty list ends the stream
\* with one error event
Stage1Error ==
    /\ pc = "text"
    /\ \E resp \in BackendResponses :
         LET r == generate_full_story(resp) IN
         /\ r.raised \/ r.pages = <<>>
         /\ s1' = Stage1Kind(resp)
    /\ events' = Append(events, ErrorEvent)
    /\ pc' = "done"
    /\ UNCHANGED <<fn, api, ui, gen, conn, num_images, use_style_consistency, base_url, story_pages,
                   master_prompt, mst, task, calls, completed>>

\* lines 301-331: the story event, then the master call or the page loop
Stage1Story ==
    /\ pc = "text"
    /\ \E resp \in BackendResponses :
         LET r == generate_full_story(resp) IN
         /\ ~r.raised /\ r.pages # <<>>
         /\ s1' = Stage1Kind(resp)
         /\ story_pages' = r.pages
         /\ events' = events \o AfterStage1(r.pages)
         /\ task' = [p \in 1..Len(Slice(r.pages, num_images)) |-> NewTask]
    /\ pc' = IF use_style_consistency THEN "master" ELSE "stage2"
    /\ UNCHANGED <<fn, api, ui, gen, conn, num_images, use_style_consistency, base_url, master_prompt,
                   mst, calls, completed>>

\* --------------------------------------------------- Stage 1.5: master style
\* lines 310-316: generate_master_prompt -> call_dedalus_api, first attempt
MasterCall ==
    /\ pc = "master" /\ mst.st = "idle"
    /\ mst' = [st |-> "http", attempt |-> 0]
    /\ calls' = [calls EXCEPT !.master = @ + 1]
    /\ UNCHANGED <<fn, api, ui, gen, conn, pc, events, num_images, use_style_consistency, base_url,
                   story_pages, master_prompt, task, s1, completed>>

\* a 200 response: generate_master_prompt returns revised_prompt or its own
\* initial prompt, never an empty string
MasterReturn ==
    /\ pc = "master" /\ mst.st = "http"
    /\ \E o \in Outcomes : AfterAttempt(mst.attempt, o) = "return"
    /\ mst' = [st |-> "done", attempt |-> 0]
    /\ \E style \in Styles : master_prompt' = style
    /\ pc' = "stage2"
    /\ UNCHANGED <<fn, api, ui, gen, conn, events, num_images, use_style_consistency, base_url,
                   story_pages, task, s1, calls, completed>>

\* a failed attempt that call_dedalus_api sleeps after
MasterSleep ==
    /\ pc = "master" /\ mst.st = "http"
    /\ \E o \in Outcomes : AfterAttempt(mst.attempt, o) = "sleep"
    /\ mst' = [mst EXCEPT !.st = "backoff"]
    /\ UNCHANGED <<fn, api, ui, gen, conn, pc, events, num_images, use_style_consistency, base_url,
                   story_pages, master_prompt, task, s1, calls, completed>>

\* the sleep is over and the loop has another pass
MasterRetry ==
    /\ pc = "master" /\ mst.st = "backoff" /\ HasNextAttempt(mst.attempt)
    /\ mst' = [st |-> "http", attempt |-> mst.attempt + 1]
    /\ UNCHANGED <<fn, api, ui, gen, conn, pc, events, num_images, use_style_consistency, base_url,
                   story_pages, master_prompt, task, s1, calls, completed>>

\* mutant: the error event of a failed master call does not end the stream
MasterRaiseContinue ==
    /\ pc = "master"
    /\ \/ mst.st = "http" /\ \E o \in Outcomes : AfterAttempt(mst.attempt, o) = "raise"
       \/ mst.st = "backoff" /\ ~HasNextAttempt(mst.attempt)
    /\ mst' = [st |-> "done", attempt |-> 0]
    /\ events' = Append(events, ErrorEvent)
    /\ pc' = "stage2"
    /\ UNCHANGED <<fn, api, ui, gen, conn, num_images, use_style_consistency, base_url, story_pages,
                   master_prompt, task, s1, calls, completed>>

\* call_dedalus_api raises (lines 112, 119, 126, 132, 134); nothing between
\* line 316 and line 372 catches it: the outer handler yields an error event
MasterRaise ==
    /\ pc = "master"
    /\ \/ mst.st = "http" /\ \E o \in Outcomes : AfterAttempt(mst.attempt, o) = "raise"
       \/ mst.st = "backoff" /\ ~HasNextAttempt(mst.attempt)
    /\ mst' = [st |-> "done", attempt |-> 0]
    /\ events' = Append(events, ErrorEvent)
    /\ pc' = "done"
    /\ UNCHANGED <<fn, api, ui, gen, conn, num_images, use_style_consistency, base_url, story_pages,
                   master_prompt, task, s1, calls, completed>>

\* ------------------------------------------------------ Stage 2: page loop
\* mutant: every page's gather is created without waiting for any other
CanForkAll(p) == TRUE

\* mutant: a page's gather is created as soon as the one before it was created
CanForkStarted(p) == \A q \in 1..(p - 1) : task[q].st # "new"

\* mutant: a page's gather is created once the media of the pages before it
\* are ready, their scene not yet yielded
CanForkBeforeYield(p) ==
    \A q \in 1..(p - 1) : task[q].img.st = "done" /\ task[q].aud.st = "done"

\* for page in pages_to_process: the loop body for position p starts when the
\* bodies of the positions before it have yielded their scene
CanFork(p) == \A q \in 1..(p - 1) : task[q].st = "done"

\* mutant: every scene is built from the first page
ScenePageFirst(p) == pages_to_process[1]

\* the page the scene of position p is built from (page_num, page_text)
ScenePage(p) == pages_to_process[p]

\* both media results of position p are in: its gather is done
MediaDone(t) == t.img.st = "done" /\ t.aud.st = "done"

\* the ghost record of which of a page's two tasks ended first, kept until
\* the next gather is created
First(t, which) == IF t.first = "none" THEN which ELSE t.first

\* the ghost record of completions after task p became t
Finished(p, t) == IF MediaDone(t) THEN Append(completed, p) ELSE completed

\* mutant: the audio task is not created with the image task
StartPageImageOnly(p) ==
    /\ pc = "stage2" /\ ~Blocked
    /\ task[p].st = "new" /\ CanFork(p)
    /\ task' = [task EXCEPT ![p].st = "run", ![p].img.st = "sched"]
    /\ UNCHANGED <<fn, api, ui, gen, conn, pc, events, num_images, use_style_consistency, base_url,
                   story_pages, master_prompt, mst, s1, calls, completed>>

\* line 338: asyncio.gather creates the image task and the audio task
StartPage(p) ==
    /\ pc = "stage2" /\ ~Blocked
    /\ task[p].st = "new" /\ CanFork(p)
    /\ task' = [q \in Positions |->
                 IF q = p
                 THEN [task[q] EXCEPT !.st = "run", !.img.st = "sched",
                                      !.aud.st = "sched"]
                 ELSE [task[q] EXCEPT !.first = "none"]]
    /\ UNCHANGED <<fn, api, ui, gen, conn, pc, events, num_images, use_style_consistency, base_url,
                   story_pages, master_prompt, mst, s1, calls, completed>>

\* mutant: the image call is made for a page without text too
ImageStartAlways(p) ==
    /\ pc = "stage2" /\ ~Blocked
    /\ task[p].img.st = "sched"
    /\ task' = [task EXCEPT ![p].img.st = "http",
                            ![p].img.prompt =
                                ImagePrompt(master_prompt, pages_to_process[p].text)]
    /\ calls' = [calls EXCEPT !.image = @ + 1]
    /\ UNCHANGED <<fn, api, ui, gen, conn, pc, events, num_images, use_style_consistency, base_url,
                   story_pages, master_prompt, mst, s1, completed>>

\* generate_image_for_page up to its first HTTP attempt; the image task is the
\* first of the two to run. An empty page text returns "" without a call.
ImageStart(p) ==
    /\ pc = "stage2" /\ ~Blocked
    /\ task[p].img.st = "sched"
    /\ IF pages_to_process[p].text = <<>>
       THEN LET t == [task[p] EXCEPT !.img.st = "done",
                                     !.first = First(task[p], "img")] IN
            /\ task' = [task EXCEPT ![p] = t]
            /\ completed' = Finished(p, t)
            /\ UNCHANGED calls
       ELSE /\ task' = [task EXCEPT ![p].img.st = "http",
                                    ![p].img.prompt =
                                        ImagePrompt(master_prompt,
                                                    pages_to_process[p].text)]
            /\ calls' = [calls EXCEPT !.image = @ + 1]
            /\ UNCHANGED completed
    /\ UNCHANGED <<fn, api, ui, gen, conn, pc, events, num_images, use_style_consistency, base_url,
                   story_pages, master_prompt, mst, s1>>

\* the image task ends with result r; ok records whether the image call
\* produced a reference
ImageEnd(p, r, ok) ==
    LET c == ImageCatch(r)
        t == [task[p] EXCEPT !.img.st = "done", !.img.attempt = 0,
                             !.img.exc = c.exc, !.img.url = c.url, !.img.ok = ok,
                             !.first = First(task[p], "img")]
    IN  /\ task' = [task EXCEPT ![p] = t]
        /\ completed' = Finished(p, t)

\* a 200 response and what generate_image_for_page makes of its body
ImageReturn(p) ==
    /\ pc = "stage2" /\ task[p].img.st = "http"
    /\ \E o \in Outcomes : AfterAttempt(task[p].img.attempt, o) = "return"
    /\ \E body \in Bodies :
         ImageEnd(p, [exc |-> FALSE, url |-> ResponseRef(body)], body \in {"b64", "url"})
    /\ UNCHANGED <<fn, api, ui, gen, conn, pc, events, num_images, use_style_consistency, base_url,
                   story_pages, master_prompt, mst, s1, calls>>

\* a failed attempt that call_dedalus_api sleeps after (asyncio.sleep: the
\* audio task can run now)
ImageSleep(p) ==
    /\ pc = "stage2" /\ task[p].img.st = "http"
    /\ \E o \in Outcomes : AfterAttempt(task[p].img.attempt, o) = "sleep"
    /\ task' = [task EXCEPT ![p].img.st = "backoff"]
    /\ UNCHANGED <<fn, api, ui, gen, conn, pc, events, num_images, use_style_consistency, base_url,
                   story_pages, master_prompt, mst, s1, calls, completed>>

\* mutant: the next pass does not advance the attempt counter
ImageRetrySame(p) ==
    /\ pc = "stage2" /\ ~Blocked
    /\ task[p].img.st = "backoff" /\ task[p].aud.st # "sched"
    /\ HasNextAttempt(task[p].img.attempt)
    /\ task' = [task EXCEPT ![p].img.st = "http"]
    /\ UNCHANGED <<fn, api, ui, gen, conn, pc, events, num_images, use_style_consistency, base_url,
                   story_pages, master_prompt, mst, s1, calls, completed>>

\* the sleep is over (the audio task, ready all along, has run by then) and
\* the loop has another pass
ImageRetry(p) ==
    /\ pc = "stage2" /\ ~Blocked
    /\ task[p].img.st = "backoff" /\ task[p].aud.st # "sched"
    /\ HasNextAttempt(task[p].img.attempt)
    /\ task' = [task EXCEPT ![p].img.st = "http", ![p].img.attempt = @ + 1]
    /\ UNCHANGED <<fn, api, ui, gen, conn, pc, events, num_images, use_style_consistency, base_url,
                   story_pages, master_prompt, mst, s1, calls, completed>>

\* call_dedalus_api raises: at once after an attempt, or after the sleep that
\* follows the last attempt
ImageRaise(p) ==
    /\ pc = "stage2"
    /\ \/ task[p].img.st = "http"
          /\ \E o \in Outcomes : AfterAttempt(task[p].img.attempt, o) = "raise"
       \/ task[p].img.st = "backoff" /\ task[p].aud.st # "sched" /\ ~Blocked
          /\ ~HasNextAttempt(task[p].img.attempt)
    /\ ImageEnd(p, [exc |-> TRUE, url |-> NoRef], FALSE)
    /\ UNCHANGED <<fn, api, ui, gen, conn, pc, events, num_images, use_style_consistency, base_url,
                   story_pages, master_prompt, mst, s1, calls>>

\* generate_audio_for_page up to the text-to-speech call; it runs once the image
\* task has suspended or ended. An empty page text returns "" without a call.
AudioStart(p) ==
    /\ pc = "stage2" /\ ~Blocked
    /\ task[p].aud.st = "sched" /\ task[p].img.st # "sched"
    /\ IF pages_to_process[p].text = <<>>
       THEN LET t == [task[p] EXCEPT !.aud.st = "done",
                                     !.first = First(task[p], "aud")] IN
            /\ task' = [task EXCEPT ![p] = t]
            /\ completed' = Finished(p, t)
            /\ UNCHANGED calls
       ELSE /\ task' = [task EXCEPT ![p].aud.st = "tts"]
            /\ calls' = [calls EXCEPT !.audio = @ + 1]
            /\ UNCHANGED completed
    /\ UNCHANGED <<fn, api, ui, gen, conn, pc, events, num_images, use_style_consistency, base_url,
                   story_pages, master_prompt, mst, s1>>

\* generate_story_audio: the file path, or an exception of the client or of
\* the file write
AudioEnd(p) ==
    /\ pc = "stage2" /\ task[p].aud.st = "tts"
    /\ \E ok \in BOOLEAN :
         LET c == AudioCatch(IF ok THEN [exc |-> FALSE, url |-> SavedAudio]
                             ELSE [exc |-> TRUE, url |-> NoRef])
             t == [task[p] EXCEPT !.aud.st = "done", !.aud.exc = c.exc,
                                  !.aud.url = c.url, !.aud.ok = ok,
                                  !.first = First(task[p], "aud")]
         IN  /\ task' = [task EXCEPT ![p] = t]
             /\ completed' = Finished(p, t)
    /\ UNCHANGED <<fn, api, ui, gen, conn, pc, events, num_images, use_style_consistency, base_url,
                   story_pages, master_prompt, mst, s1, calls>>

\* mutant: a page whose image or audio failed yields an error event that ends
\* the stream
SceneEmitStrict(p) ==
    /\ pc = "stage2" /\ ~Blocked
    /\ task[p].st = "run" /\ task[p].img.st = "done" /\ task[p].aud.st = "done"
    /\ IF task[p].img.url = <<>> \/ task[p].aud.url = <<>>
       THEN events' = Append(events, ErrorEvent) /\ pc' = "done"
       ELSE /\ events' = Append(events,
                               SceneEvent(pages_to_process[p], task[p].img.url,
                                          task[p].aud.url, base_url))
            /\ pc' = pc
    /\ task' = [task EXCEPT ![p].st = "done"]
    /\ UNCHANGED <<fn, api, ui, gen, conn, num_images, use_style_consistency, base_url, story_pages,
                   master_prompt, mst, s1, calls, completed>>

\* lines 343-357: gather returned; the scene event of the page is yielded
SceneEmit(p) ==
    /\ pc = "stage2" /\ ~Blocked
    /\ task[p].st = "run" /\ MediaDone(task[p])
    /\ events' = Append(events,
                        SceneEvent(ScenePage(p), GatherResult(task[p].img),
                                   GatherResult(task[p].aud), base_url))
    /\ task' = [task EXCEPT ![p].st = "done"]
    /\ UNCHANGED <<fn, api, ui, gen, conn, pc, num_images, use_style_consistency, base_url, story_pages,
                   master_prompt, mst, s1, calls, completed>>

\* mutant: complete is yielded once every page's gather was created
CompleteEarly ==
    /\ pc = "stage2" /\ ~Blocked
    /\ \A p \in Positions : task[p].st # "new"
    /\ events' = Append(events, CompleteEvent)
    /\ pc' = "done"
    /\ UNCHANGED <<fn, api, ui, gen, conn, num_images, use_style_consistency, base_url, story_pages,
                   master_prompt, mst, task, s1, calls, completed>>

\* line 366: the loop is over
Complete ==
    /\ pc = "stage2" /\ ~Blocked
    /\ \A p \in Positions : task[p].st = "done"
    /\ events' = Append(events, CompleteEvent)
    /\ pc' = "done"
    /\ UNCHANGED <<fn, api, ui, gen, conn, num_images, use_style_consistency, base_url, story_pages,
                   master_prompt, mst, task, s1, calls, completed>>

Next ==
    \/ Stage1Call \/ Stage1Error \/ Stage1Story
    \/ MasterCall \/ MasterReturn \/ MasterSleep \/ MasterRetry \/ MasterRaise
    \/ \E p \in Positions : StartPage(p)
    \/ \E p \in Positions : ImageStart(p)
    \/ \E p \in Positions : ImageReturn(p)
    \/ \E p \in Positions : ImageSleep(p)
    \/ \E p \in Positions : ImageRetry(p)
    \/ \E p \in Positions : ImageRaise(p)
    \/ \E p \in Positions : AudioStart(p)
    \/ \E p \in Positions : AudioEnd(p)
    \/ \E p \in Positions : SceneEmit(p)
    \/ Complete

Spec == Init /\ [][Next]_vars

\* a run in which every external call returns or fails, every sleep ends and
\* the event loop runs a coroutine whenever one is ready
LiveSpec == Spec /\ WF_vars(Next)

\* ------------------------------------------- the text functions on their own
\* bounds of the texts and of num_scenes
MaxTextLen == 5
MaxScenes == 3

\* the pieces a back-end text is made of, and those of a story to split
StoryTokens == {"P1", "P2", "Q1", "a", "nl", "sp"}
SplitTokens == {"a", "b", "nl", "sp"}

TextsOf(tokens) == UNION { [1..k -> tokens] : k \in 0..MaxTextLen }

\* a text handed to the functions of ai_logic.py, or a story and a number of
\* scenes handed to simple_split_story
FnInit ==
    /\ pc = "start" /\ events = <<>> /\ num_images = 0
    /\ use_style_consistency = FALSE /\ base_url = <<>> /\ story_pages = <<>>
    /\ master_prompt = "None" /\ mst = IdleCall /\ task = <<>>
    /\ s1 = "pending" /\ completed = <<>>
    /\ calls = [text |-> 0, master |-> 0, image |-> 0, audio |-> 0]
    /\ \/ \E t \in TextsOf(StoryTokens) :
             fn = [NoCall EXCEPT !.op = "text", !.text = t]
       \/ \E t \in TextsOf(SplitTokens), k \in 1..MaxScenes :
             fn = [NoCall EXCEPT !.op = "story", !.text = t, !.n = k]
    /\ api = NoApiCall
    /\ ui = NoPage
    /\ gen = NoGen
    /\ conn = Connected

ExtractCall ==
    /\ fn.op = "text"
    /\ LET x == extract_final_story(fn.text) IN
       fn' = [fn EXCEPT !.op = "extract_final_story", !.found = x.found,
                        !.story = x.story]
    /\ UNCHANGED <<stream, api, ui, gen, conn>>

PagesCall ==
    /\ fn.op = "text"
    /\ fn' = [fn EXCEPT !.op = "story_to_pages_json",
                        !.pages = story_to_pages_json(fn.text)]
    /\ UNCHANGED <<stream, api, ui, gen, conn>>

\* generate_full_story on a text generate_story returned
FullStoryCall ==
    /\ fn.op = "text"
    /\ LET r == generate_full_story([ok |-> TRUE, content |-> fn.text]) IN
       fn' = [fn EXCEPT !.op = "generate_full_story", !.raised = r.raised,
                        !.pages = r.pages]
    /\ UNCHANGED <<stream, api, ui, gen, conn>>

SplitCall ==
    /\ fn.op = "story"
    /\ fn' = [fn EXCEPT !.op = "simple_split_story",
                        !.scenes = simple_split_story(fn.text, fn.n)]
    /\ UNCHANGED <<stream, api, ui, gen, conn>>

FnNext == ExtractCall \/ PagesCall \/ FullStoryCall \/ SplitCall

FnSpec == FnInit /\ [][FnNext]_vars

\* ------------------------------------------------- call_dedalus_api alone
\* ApiSpec is one call of call_dedalus_api: api.log holds, for each HTTP
\* attempt that ended, its outcome and the seconds slept after it (0: none)
ApiInit ==
    /\ pc = "start" /\ events = <<>> /\ num_images = 0
    /\ use_style_consistency = FALSE /\ base_url = <<>> /\ story_pages = <<>>
    /\ master_prompt = "None" /\ mst = IdleCall /\ task = <<>>
    /\ s1 = "pending" /\ completed = <<>>
    /\ calls = [text |-> 0, master |-> 0, image |-> 0, audio |-> 0]
    /\ fn = NoCall
    /\ ui = NoPage
    /\ api = [st |-> "http", attempt |-> 0, log |-> <<>>]
    /\ gen = NoGen
    /\ conn = Connected

\* status 200: return response.json()
ApiReturn ==
    /\ api.st = "http"
    /\ \E o \in Outcomes :
          /\ AfterAttempt(api.attempt, o) = "return"
          /\ api' = [api EXCEPT !.st = "returned",
                                !.log = Append(@, [outcome |-> o, wait |-> 0])]
    /\ UNCHANGED <<stream, fn, ui, gen, conn>>

\* a failed attempt followed by time.sleep
ApiSleep ==
    /\ api.st = "http"
    /\ \E o \in Outcomes :
          /\ AfterAttempt(api.attempt, o) = "sleep"
          /\ api' = [api EXCEPT !.st = "backoff",
                                !.log = Append(@, [outcome |-> o,
                                                   wait |-> WaitTime(api.attempt, o)])]
    /\ UNCHANGED <<stream, fn, ui, gen, conn>>

\* continue: the next pass of the loop
ApiRetry ==
    /\ api.st = "backoff" /\ HasNextAttempt(api.attempt)
    /\ api' = [api EXCEPT !.st = "http", !.attempt = @ + 1]
    /\ UNCHANGED <<stream, fn, ui, gen, conn>>

\* a failed attempt that raises: lines 112, 119, 126 and 132
ApiRaise ==
    /\ api.st = "http"
    /\ \E o \in Outcomes :
          /\ AfterAttempt(api.attempt, o) = "raise"
          /\ api' = [api EXCEPT !.st = "raised",
                                !.log = Append(@, [outcome |-> o, wait |-> 0])]
    /\ UNCHANGED <<stream, fn, ui, gen, conn>>

\* the loop is over: line 134 raises
ApiExhausted ==
    /\ api.st = "backoff" /\ ~HasNextAttempt(api.attempt)
    /\ api' = [api EXCEPT !.st = "raised"]
    /\ UNCHANGED <<stream, fn, ui, gen, conn>>

ApiNext == ApiReturn \/ ApiSleep \/ ApiRetry \/ ApiRaise \/ ApiExhausted

ApiSpec == ApiInit /\ [][ApiNext]_vars

\* ------------------------------------------------- the way into the stream
\* FrontSpec is a prompt on its way to stream_story: typed into the Streamlit
\* page and sent by the Generate button, or sent by any other HTTP client
PromptTokens == {"a", "sp", "nl"}

FrontInit ==
    /\ pc = "start" /\ events = <<>> /\ num_images = 0
    /\ use_style_consistency = FALSE /\ base_url = <<>> /\ story_pages = <<>>
    /\ master_prompt = "None" /\ mst = IdleCall /\ task = <<>>
    /\ s1 = "pending" /\ completed = <<>>
    /\ calls = [text |-> 0, master |-> 0, image |-> 0, audio |-> 0]
    /\ fn = NoCall
    /\ api = NoApiCall
    /\ \E t \in TextsOf(PromptTokens) :
          ui = [NoPage EXCEPT !.st = "page", !.prompt = t]
    /\ gen = NoGen
    /\ conn = Connected

\* main() of streamlit_app.py, lines 565-585: if not prompt: st.error(...),
\* else the session state is reset and stream_from_backend(prompt, ...) sends
\* the GET request
GenerateClick ==
    /\ ui.st = "page"
    /\ ui' = IF ui.prompt = <<>> THEN [ui EXCEPT !.st = "rejected"]
             ELSE [ui EXCEPT !.st = "requested", !.via = "frontend",
                             !.story_complete = FALSE, !.scenes = NoScenes]
    /\ UNCHANGED <<stream, fn, api, gen, conn>>

\* GET /api/stream-story?prompt=... from another client: prompt: str takes
\* any string, the empty one included
DirectRequest ==
    /\ ui.st = "page"
    /\ ui' = [ui EXCEPT !.st = "requested", !.via = "http"]
    /\ UNCHANGED <<stream, fn, api, gen, conn>>

\* event_generator runs up to its call of generate_story_pages(prompt, style)
StreamStart == ui.st = "requested" /\ Stage1Call

FrontNext == GenerateClick \/ DirectRequest \/ StreamStart

FrontSpec == FrontInit /\ [][FrontNext]_vars

\* --------------------------------------------------------------- batch mode
\* BatchSpec is a run of generate_story, the endpoint POST /api/generate-story
\* whose code is kept as comment lines in main.py (91-255): Stage 1 as in
\* stream_story, then one process_page task per entry of pages_to_process, all
\* created by one asyncio.gather, then one response. events holds what the
\* endpoint has answered. A num_images of None slices like a large one.
Http500 == [type |-> "http500"]
BatchResponse(pages) == [type |-> "response", story_pages |-> pages]

\* the dict process_page returns for the entry at position p
ProcessedPage(p) ==
    [page |-> pages_to_process[p].page,
     text |-> pages_to_process[p].text,
     image_url |-> GatherResult(task[p].img),
     audio_url |-> GatherResult(task[p].aud)]

BatchInit ==
    /\ pc = "start"
    /\ events = <<>>
    /\ num_images \in NumImages
    /\ use_style_consistency = FALSE
    /\ base_url = <<>>
    /\ story_pages = <<>>
    /\ master_prompt = "None"
    /\ mst = IdleCall
    /\ task = <<>>
    /\ s1 = "pending"
    /\ calls = [text |-> 0, master |-> 0, image |-> 0, audio |-> 0]
    /\ completed = <<>>
    /\ fn = NoCall
    /\ api = NoApiCall
    /\ ui = NoPage
    /\ gen = NoGen
    /\ conn = Connected

\* an exception of generate_story_pages, or an empty page list: the handler
\* of the last lines raises HTTPException(500)
BatchFail ==
    /\ pc = "text"
    /\ \E resp \in BackendResponses :
         LET r == generate_full_story(resp) IN
         /\ r.raised \/ r.pages = <<>>
         /\ s1' = Stage1Kind(resp)
    /\ events' = Append(events, Http500)
    /\ pc' = "done"
    /\ UNCHANGED <<fn, api, ui, gen, conn, num_images, use_style_consistency, base_url, story_pages,
                   master_prompt, mst, task, calls, completed>>

\* asyncio.gather(*[process_page(page) for page in pages_to_process]): every
\* process_page task runs up to its own gather before any media task runs
BatchFork ==
    /\ pc = "text"
    /\ \E resp \in BackendResponses :
         LET r == generate_full_story(resp) IN
         /\ ~r.raised /\ r.pages # <<>>
         /\ s1' = Stage1Kind(resp)
         /\ story_pages' = r.pages
         /\ task' = [p \in 1..Len(Slice(r.pages, num_images)) |->
                       [NewTask EXCEPT !.st = "run", !.img.st = "sched",
                                       !.aud.st = "sched"]]
    /\ pc' = "stage2"
    /\ UNCHANGED <<fn, api, ui, gen, conn, events, num_images, use_style_consistency, base_url,
                   master_prompt, mst, calls, completed>>

\* mutant: the results are listed as the tasks completed
BatchReturnAsCompleted ==
    /\ pc = "stage2"
    /\ \A p \in Positions : MediaDone(task[p])
    /\ events' = Append(events,
                        BatchResponse([k \in 1..Len(completed) |->
                                          ProcessedPage(completed[k])]))
    /\ task' = [p \in Positions |-> [task[p] EXCEPT !.st = "done"]]
    /\ pc' = "done"
    /\ UNCHANGED <<fn, api, ui, gen, conn, num_images, use_style_consistency, base_url, story_pages,
                   master_prompt, mst, s1, calls, completed>>

\* the outer gather is over when every process_page task has returned; its
\* results are in the order of its arguments; none is an exception
BatchReturn ==
    /\ pc = "stage2"
    /\ \A p \in Positions : MediaDone(task[p])
    /\ events' = Append(events,
                        BatchResponse([p \in Positions |-> ProcessedPage(p)]))
    /\ task' = [p \in Positions |-> [task[p] EXCEPT !.st = "done"]]
    /\ pc' = "done"
    /\ UNCHANGED <<fn, api, ui, gen, conn, num_images, use_style_consistency, base_url, story_pages,
                   master_prompt, mst, s1, calls, completed>>

BatchNext ==
    \/ Stage1Call \/ BatchFail \/ BatchFork
    \/ \E p \in Positions : ImageStart(p)
    \/ \E p \in Positions : ImageReturn(p)
    \/ \E p \in Positions : ImageSleep(p)
    \/ \E p \in Positions : ImageRetry(p)
    \/ \E p \in Positions : ImageRaise(p)
    \/ \E p \in Positions : AudioStart(p)
    \/ \E p \in Positions : AudioEnd(p)
    \/ BatchReturn

BatchSpec == BatchInit /\ [][BatchNext]_vars

\* ------------------------------------------------- generate_images alone
\* ImagesSpec is one call of generate_images(story, num_images); a call of
\* call_dedalus_api is one step here: it raises or returns a response body
GenTokens == {"a", "nl"}
CallResults == {"raise"} \cup Bodies

GenInit ==
    /\ pc = "start" /\ events = <<>> /\ num_images = 0
    /\ use_style_consistency = FALSE /\ base_url = <<>> /\ story_pages = <<>>
    /\ master_prompt = "None" /\ mst = IdleCall /\ task = <<>>
    /\ s1 = "pending" /\ completed = <<>>
    /\ calls = [text |-> 0, master |-> 0, image |-> 0, audio |-> 0]
    /\ fn = NoCall
    /\ api = NoApiCall
    /\ ui = NoPage
    /\ conn = Connected
    /\ \E t \in TextsOf(GenTokens), k \in 0..MaxScenes :
          gen = [NoGen EXCEPT !.st = "start", !.story = t, !.n = k]

\* scenes = simple_split_story(story, num_images); if not scenes: return []
GenSplit ==
    /\ gen.st = "start"
    /\ LET scenes == simple_split_story(gen.story, gen.n) IN
       gen' = [gen EXCEPT !.scenes = scenes,
                          !.st = IF scenes = <<>> THEN "returned" ELSE "master"]
    /\ UNCHANGED <<stream, fn, api, ui, conn>>

\* generate_master_prompt(scenes[0]): an exception of its call reaches the
\* outer handler, which returns []
GenMaster ==
    /\ gen.st = "master"
    /\ \E r \in CallResults :
          gen' = IF r = "raise"
                 THEN [gen EXCEPT !.master = "raise", !.st = "returned", !.paths = <<>>]
                 ELSE [gen EXCEPT !.master = "ok", !.st = "scenes"]
    /\ UNCHANGED <<stream, fn, api, ui, conn>>

\* mutant: a scene whose call raises ends the loop
GenSceneAbort ==
    /\ gen.st = "scenes" /\ gen.idx < Len(Take(gen.scenes, gen.n))
    /\ \E r \in CallResults :
          LET ref == IF r = "raise" THEN NoRef ELSE ResponseRef(r) IN
          gen' = [gen EXCEPT !.log = Append(@, [idx |-> gen.idx, result |-> r]),
                             !.paths = IF ref = NoRef THEN @ ELSE Append(@, ref),
                             !.idx = @ + 1,
                             !.st = IF r = "raise" THEN "returned" ELSE @]
    /\ UNCHANGED <<stream, fn, api, ui, conn>>

\* one pass of 'for idx, scene in enumerate(scenes[:num_images])': the call,
\* then the reference appended when the response holds one; an exception is
\* caught inside the loop (continue)
GenScene ==
    /\ gen.st = "scenes" /\ gen.idx < Len(Take(gen.scenes, gen.n))
    /\ \E r \in CallResults :
          LET ref == IF r = "raise" THEN NoRef ELSE ResponseRef(r) IN
          gen' = [gen EXCEPT !.log = Append(@, [idx |-> gen.idx, result |-> r]),
                             !.paths = IF ref = NoRef THEN @ ELSE Append(@, ref),
                             !.idx = @ + 1]
    /\ UNCHANGED <<stream, fn, api, ui, conn>>

\* the loop is over: return image_paths
GenReturn ==
    /\ gen.st = "scenes" /\ gen.idx = Len(Take(gen.scenes, gen.n))
    /\ gen' = [gen EXCEPT !.st = "returned"]
    /\ UNCHANGED <<stream, fn, api, ui, conn>>

GenNext == GenSplit \/ GenMaster \/ GenScene \/ GenReturn

ImagesSpec == GenInit /\ [][GenNext]_vars

\* ------------------------------------------------ the frontend's event loop
\* ClientSpec is one press of Generate Story with a prompt typed, and the loop
\* of main() over the events of stream_generator: those of the mock when
\* USE_MOCK_DATA is set, else those stream_from_backend decodes from the
\* response of a run requested with num_images = NUM_SCENES (and without
\* use_style_consistency, which the frontend never sends).
ClientLineShapes == {<<"P1", "a">>, <<"P2", "a">>, <<"P0", "a">>, <<"P7", "a">>}

ClientTexts ==
    { JoinLines(ls) : ls \in UNION { [1..n -> ClientLineShapes] : n \in 1..MaxLines } }

\* the page lists Stage 1 can hand to the stream
ClientPageLists ==
    { generate_full_story([ok |-> TRUE, content |-> t]).pages : t \in ClientTexts }
        \ {<<>>}

\* the events of a run of stream_story whose Stage 1 returned pages and whose
\* image and speech calls gave the references img and aud
SuccessStream(pages, img, aud) ==
    LET ps == Slice(pages, NUM_SCENES) IN
    <<StoryEvent(pages)>>
        \o [k \in 1..Len(ps) |-> SceneEvent(ps[k], img, aud, <<>>)]
        \o <<CompleteEvent>>

BackendStreams ==
    {<<ErrorEvent>>}
        \cup { SuccessStream(ps, img, SavedAudio) :
                  ps \in ClientPageLists, img \in {NoRef, SavedImage} }

\* stream_from_backend: the events decoded so far, then the end of the
\* response or an exception of requests, which yields an error event
ReceivedStreams ==
    UNION { { SubSeq(s, 1, k) \o tail : k \in 0..Len(s), tail \in {<<>>, <<ErrorEvent>>} } :
              s \in BackendStreams }

\* simulate_sse_streaming: the story event, scenes[:num_images], complete
MockStory == [type |-> "story", text |-> <<"a">>]
MockScene(i) ==
    [type |-> "scene", scene_index |-> i, scene_text |-> <<"a">>,
     image_url |-> SavedImage, audio_url |-> SavedAudio]
MockStream(n) ==
    <<MockStory>>
        \o [i \in 1..(IF n < 6 THEN n ELSE 6) |-> MockScene(i - 1)]
        \o <<CompleteEvent>>

ClientInit ==
    /\ pc = "start" /\ events = <<>> /\ num_images = 0
    /\ use_style_consistency = FALSE /\ base_url = <<>> /\ story_pages = <<>>
    /\ master_prompt = "None" /\ mst = IdleCall /\ task = <<>>
    /\ s1 = "pending" /\ completed = <<>>
    /\ calls = [text |-> 0, master |-> 0, image |-> 0, audio |-> 0]
    /\ fn = NoCall
    /\ api = NoApiCall
    /\ gen = NoGen
    /\ conn = Connected
    /\ \E mock \in BOOLEAN, before \in BOOLEAN :
          \E s \in (IF mock THEN {MockStream(NUM_SCENES)} ELSE ReceivedStreams) :
             ui = [NoPage EXCEPT !.st = "page", !.prompt = <<"a">>, !.mock = mock,
                                 !.stream = s, !.story_complete = before]

\* the event the loop takes next
NextEvent == ui.stream[ui.pos + 1]

Looping == ui.st = "requested" /\ ui.via = "frontend" /\ ui.pos < Len(ui.stream)

\* "\n\n".join(p["text"].strip() for p in event["pages"] if p["text"])
RECURSIVE JoinPages(_)
JoinPages(pages) ==
    IF pages = <<>> THEN <<>>
    ELSE LET rest == JoinPages(Tail(pages)) IN
         IF pages[1].text = <<>> THEN rest
         ELSE IF rest = <<>> THEN Strip(pages[1].text)
         ELSE Strip(pages[1].text) \o <<"nl", "nl">> \o rest

\* event_type == 'story'
HandleStory ==
    /\ Looping /\ NextEvent.type = "story"
    /\ LET e == NextEvent
           story_text == IF "text" \in DOMAIN e THEN e.text
                         ELSE IF "pages" \in DOMAIN e THEN JoinPages(e.pages)
                         ELSE <<>>
       IN  ui' = [ui EXCEPT !.pos = @ + 1,
                            !.final_story = IF story_text # <<>> THEN story_text ELSE @]
    /\ UNCHANGED <<stream, fn, api, gen, conn>>

\* list indexing: an index from -len to len - 1 addresses a slot
InRange(idx) == idx \in (-NUM_SCENES)..(NUM_SCENES - 1)
SlotOf(idx) == IF idx < 0 THEN idx + NUM_SCENES ELSE idx

\* event_type == 'scene': scenes[scene_idx] = ..., render_scene_card(event,
\* scene_placeholders[scene_idx]); an IndexError ends the script run
HandleScene ==
    /\ Looping /\ NextEvent.type = "scene"
    /\ LET idx == NextEvent.scene_index IN
       ui' = IF InRange(idx)
             THEN [ui EXCEPT !.pos = @ + 1, !.scenes[SlotOf(idx)] = NextEvent]
             ELSE [ui EXCEPT !.pos = @ + 1, !.st = "crashed"]
    /\ UNCHANGED <<stream, fn, api, gen, conn>>

\* event_type == 'complete': story_complete = True; break
HandleComplete ==
    /\ Looping /\ NextEvent.type = "complete"
    /\ ui' = [ui EXCEPT !.pos = @ + 1, !.story_complete = TRUE, !.st = "done"]
    /\ UNCHANGED <<stream, fn, api, gen, conn>>

\* mutant: the loop goes on after an error event
HandleErrorNoBreak ==
    /\ Looping /\ NextEvent.type = "error"
    /\ ui' = [ui EXCEPT !.pos = @ + 1]
    /\ UNCHANGED <<stream, fn, api, gen, conn>>

\* event_type == 'error': st.error(...); break
HandleError ==
    /\ Looping /\ NextEvent.type = "error"
    /\ ui' = [ui EXCEPT !.pos = @ + 1, !.st = "done"]
    /\ UNCHANGED <<stream, fn, api, gen, conn>>

\* the generator is exhausted: the for loop ends
StreamEnd ==
    /\ ui.st = "requested" /\ ui.via = "frontend" /\ ui.pos = Len(ui.stream)
    /\ ui' = [ui EXCEPT !.st = "done"]
    /\ UNCHANGED <<stream, fn, api, gen, conn>>

ClientNext ==
    \/ GenerateClick
    \/ HandleStory \/ HandleScene \/ HandleComplete \/ HandleError
    \/ StreamEnd

ClientSpec == ClientInit /\ [][ClientNext]_vars

\* -------------------------------------------------- the consumer disconnects
\* DropSpec is a run of stream_story requested as the frontend requests it
\* (no use_style_consistency) whose consumer may close the connection.
\* event_generator itself never looks at the connection: what ends it is the
\* StreamingResponse it was handed to (lines 376-384). Depending on the server,
\* the response either cancels the task that iterates the generator as soon as
\* the event loop handles the disconnect (CancelledError at the await where
\* the generator is suspended), or lets it run until its next yield, where the
\* send fails and the generator is closed. Neither CancelledError nor
\* GeneratorExit is an Exception, so the handlers of lines 358 and 372 do not
\* run.
DropInit ==
    /\ pc = "start" /\ events = <<>>
    /\ num_images \in NumImages
    /\ use_style_consistency = FALSE
    /\ base_url = <<>>
    /\ story_pages = <<>>
    /\ master_prompt = "None" /\ mst = IdleCall /\ task = <<>>
    /\ s1 = "pending" /\ completed = <<>>
    /\ calls = [text |-> 0, master |-> 0, image |-> 0, audio |-> 0]
    /\ fn = NoCall
    /\ api = NoApiCall
    /\ ui = NoPage
    /\ gen = NoGen
    /\ conn = Connected

\* the consumer closes the connection while the response is being streamed;
\* the events yielded so far are the ones it got
ClientGone ==
    /\ conn.st = "open" /\ pc \in {"text", "stage2"}
    /\ conn' = [st |-> "gone", delivered |-> Len(events)]
    /\ UNCHANGED <<stream, fn, api, ui, gen>>

\* the generator stands at a yield of its loop: no gather is pending
AtYield == pc = "stage2" /\ \A p \in Positions : task[p].st \in {"new", "done"}

\* a task of a cancelled gather: one that has ended keeps its result, one
\* that is scheduled or asleep (asyncio.sleep of call_dedalus_api) is cancelled
Cancelled(t) ==
    [t EXCEPT !.st = "cancelled",
              !.img.st = IF @ = "done" THEN "done" ELSE "cancelled",
              !.aud.st = IF @ = "done" THEN "done" ELSE "cancelled"]

\* the event loop is free and handles the disconnect: the generator's task is
\* cancelled where it waits (line 295, line 338 or a yield); cancelling
\* asyncio.gather cancels the two tasks it waits on
CancelAtAwait ==
    /\ conn.st = "gone" /\ ~Blocked /\ pc \in {"text", "stage2"}
    /\ pc' = "done"
    /\ task' = [p \in Positions |->
                 IF task[p].st = "run" THEN Cancelled(task[p]) ELSE task[p]]
    /\ UNCHANGED <<fn, api, ui, gen, conn, events, num_images, use_style_consistency,
                   base_url, story_pages, master_prompt, mst, s1, calls, completed>>

\* the send of an event yielded after the disconnect fails: the generator is
\* closed at that yield
SendFails ==
    /\ conn.st = "gone" /\ Len(events) > conn.delivered /\ AtYield
    /\ pc' = "done"
    /\ UNCHANGED <<fn, api, ui, gen, conn, events, num_images, use_style_consistency,
                   base_url, story_pages, master_prompt, mst, task, s1, calls, completed>>

DropNext ==
    \/ Stage1Call \/ Stage1Error \/ Stage1Story
    \/ \E p \in Positions : StartPage(p)
    \/ \E p \in Positions : ImageStart(p)
    \/ \E p \in Positions : ImageReturn(p)
    \/ \E p \in Positions : ImageSleep(p)
    \/ \E p \in Positions : ImageRetry(p)
    \/ \E p \in Positions : ImageRaise(p)
    \/ \E p \in Positions : AudioStart(p)
    \/ \E p \in Positions : AudioEnd(p)
    \/ \E p \in Positions : SceneEmit(p)
    \/ Complete
    \/ ClientGone \/ CancelAtAwait \/ SendFails

DropSpec == DropInit /\ [][DropNext]_vars

\* ------------------------------------------------------------------ claims
IsTerminal(e) == e.type \in {"complete", "error"}
Scenes == SelectSeq(events, LAMBDA e : e.type = "scene")
Count(type) == Cardinality({k \in 1..Len(events) : events[k].type = type})
Last(seq) == seq[Len(seq)]
N == Len(story_pages)
Min(a, b) == IF a < b THEN a ELSE b

\* C1: the events of a run are ordered: the one story event comes first, every
\* scene event comes after it and before the terminal event, and exactly one
\* terminal event (complete or error) ends the stream, nothing following it
C1_EventsOrdered ==
    /\ \A k \in 1..Len(events) :
         /\ events[k].type = "story" => k = 1
         /\ events[k].type = "scene" => k > 1 /\ events[1].type = "story"
         /\ IsTerminal(events[k]) => k = Len(events) /\ pc = "done"
    /\ s1 = "ok" => Count("story") = 1
    /\ pc = "done" => events # <<>> /\ IsTerminal(Last(events))
                      /\ Count("complete") + Count("error") = 1

C1_Witness ==
    /\ pc = "done" /\ Len(events) = 4
    /\ events[1].type = "story" /\ events[2].type = "scene"
    /\ events[3].type = "scene" /\ events[4].type = "complete"

\* C2 as stated: a run with N pages that completes has one story event, N
\* scene events with pairwise distinct page indices covering 1..N, and one
\* complete event, whatever num_images and the parsed page list are
C2_Original ==
    (pc = "done" /\ Last(events).type = "complete") =>
        /\ Count("story") = 1 /\ Count("complete") = 1
        /\ Len(Scenes) = N
        /\ \A j, k \in 1..Len(Scenes) : j # k => Scenes[j].page # Scenes[k].page
        /\ {Scenes[k].page : k \in 1..Len(Scenes)} = 1..N

\* C2 amended: a run with N pages has one story event; when it ends with
\* complete it has one complete event and one scene event per entry of
\* story_pages[:num_images] (min(num_images, N) of them for num_images >= 0),
\* the k-th carrying the ordinal of the k-th entry of the page list; the page
\* indices are distinct and cover 1..N when num_images >= N and the parsed
\* ordinals are 1..N in order
C2_SceneCount ==
    /\ s1 = "ok" => Count("story") = 1 /\ events[1] = StoryEvent(story_pages)
    /\ (pc = "done" /\ Last(events).type = "complete") =>
        /\ Count("story") = 1 /\ Count("complete") = 1
        /\ num_images >= 0 => Len(Scenes) = Min(num_images, N)
        /\ num_images < 0 =>
             Len(Scenes) = IF N + num_images > 0 THEN N + num_images ELSE 0
        /\ \A k \in 1..Len(Scenes) : Scenes[k].page = story_pages[k].page
        /\ (num_images >= N /\ \A k \in 1..N : story_pages[k].page = k) =>
             /\ Len(Scenes) = N
             /\ {Scenes[k].page : k \in 1..Len(Scenes)} = 1..N

C2_Witness ==
    /\ pc = "done" /\ Last(events).type = "complete"
    /\ N = 2 /\ num_images = 1 /\ Len(Scenes) = 1

\* C3: when Stage 1 fails (the back-end call raises, the page-1 marker is
\* absent, or the parsed page list is empty) the stream is exactly one error
\* event, and no master-style, image or speech call is made
C3_Stage1Failure ==
    s1 \in {"backend", "nomarker", "empty"} =>
        /\ pc = "done"
        /\ events = <<ErrorEvent>>
        /\ calls.master = 0 /\ calls.image = 0 /\ calls.audio = 0
        /\ task = <<>>

C3_Witness == s1 = "empty" /\ pc = "done" /\ calls.text = 1

AnyPageStarted == \E p \in Positions : task[p].st # "new"

\* C4: once page processing has begun no error event is ever emitted, whatever
\* image and speech calls fail; the run does not stop before the end of the
\* loop, and ends with a scene per processed page and then complete
C4_PageFailuresNotFatal ==
    /\ AnyPageStarted => Count("error") = 0
    /\ Count("error") > 0 => calls.image = 0 /\ calls.audio = 0
    /\ pc = "stage2" => ENABLED Next
    /\ (pc = "done" /\ s1 = "ok" /\ Count("error") = 0) =>
        /\ Last(events).type = "complete"
        /\ Len(Scenes) = Len(pages_to_process)
        /\ \A p \in Positions : task[p].st = "done"

C4_Witness ==
    /\ pc = "done" /\ Last(events).type = "complete" /\ Len(task) = 2
    /\ calls.image = 2 /\ calls.audio = 2
    /\ ~task[1].img.ok /\ ~task[1].aud.ok
    /\ ~task[2].img.ok /\ task[2].aud.ok

\* C5: per-page rendering never raises: each media task ends with a value, and
\* the page's scene has image_url non-empty exactly when the image call gave a
\* reference and audio_url non-empty exactly when the speech call did; a page
\* with both failed still has its scene; an empty reference stays empty in the
\* public-URL mapping
C5_RenderNeverRaises ==
    /\ \A p \in Positions :
         /\ task[p].img.st = "done" => ~task[p].img.exc
         /\ task[p].aud.st = "done" => ~task[p].aud.exc
    /\ Len(Scenes) = Cardinality({p \in Positions : task[p].st = "done"})
    /\ \A k \in 1..Len(Scenes) :
         /\ k \in Positions
         /\ (Scenes[k].image_url # <<>>) <=> task[k].img.ok
         /\ (Scenes[k].audio_url # <<>>) <=> task[k].aud.ok
         /\ task[k].img.url = <<>> => Scenes[k].image_url = <<>>
         /\ task[k].aud.url = <<>> => Scenes[k].audio_url = <<>>

C5_Witness ==
    /\ Len(Scenes) = 2 /\ base_url # <<>> /\ calls.image = 2 /\ calls.audio = 2
    /\ Scenes[1].image_url = <<>> /\ Scenes[1].audio_url = <<>>
    /\ Scenes[2].image_url # <<>> /\ Scenes[2].audio_url = <<>>

\* C6: Stage 1 happens before all Stage-2 work: no master-style, image or
\* speech call has started unless the text call has returned and the story
\* event has been emitted
C6_Stage1First ==
    (\/ calls.master + calls.image + calls.audio > 0
     \/ mst.st # "idle"
     \/ AnyPageStarted) =>
        /\ pc \notin {"start", "text"}
        /\ calls.text = 1
        /\ events # <<>> /\ events[1].type = "story"

C6_Witness ==
    /\ use_style_consistency /\ mst.st = "done" /\ master_prompt = "style"
    /\ events = <<StoryEvent(story_pages)>>
    /\ \E p \in Positions : task[p].img.st = "http"

\* the pages whose gather is created and has not yielded its scene
Running == {p \in Positions : task[p].st = "run"}

\* the pages with an image or speech call in flight
MakingCalls ==
    {p \in Positions : task[p].img.st \in {"http", "backoff"} \/ task[p].aud.st = "tts"}

C8_InFlightBound ==
    \A k \in 1..(Len(task) - 1) : Cardinality(MakingCalls) <= k

C8_Witness ==
    /\ Len(task) = 2 /\ MakingCalls = {1} /\ task[2].st = "new"
    /\ task[1].img.st = "backoff" /\ task[1].aud.st = "tts"

C10_CompleteAfterAll ==
    Count("complete") > 0 =>
        /\ mst.st \in {"idle", "done"}
        /\ MakingCalls = {} /\ Running = {}
        /\ \A p \in Positions : task[p].st = "done" /\ MediaDone(task[p])
        /\ Len(task) = Len(pages_to_process)
        /\ Len(Scenes) = Len(task)
        /\ Last(events).type = "complete"

C10_Witness ==
    /\ Count("complete") = 1 /\ Len(task) = 2 /\ use_style_consistency
    /\ task[1].img.ok /\ task[1].aud.ok /\ ~task[2].img.ok /\ ~task[2].aud.ok
    /\ calls.image = 2

C12_Original ==
    (use_style_consistency /\ mst.st = "done" /\ master_prompt = "None") =>
        /\ Count("error") = 0
        /\ pc = "done" =>
             Last(events).type = "complete" /\ Len(Scenes) = Len(pages_to_process)

\* the positions whose image call has been made
ImageCalled == {p \in Positions : task[p].img.prompt # NoPrompt}

\* when the master-style call is made: once at most, only in style-consistency
\* mode, after the story event, and over before any page's image call
MasterCallPlaced ==
    /\ calls.master <= 1
    /\ ~use_style_consistency =>
         calls.master = 0 /\ mst.st = "idle" /\ master_prompt = "None"
    /\ (use_style_consistency /\ pc = "stage2") =>
         calls.master = 1 /\ mst.st = "done" /\ master_prompt \in Styles
    /\ calls.master = 1 =>
         calls.text = 1 /\ events # <<>> /\ events[1].type = "story"
    /\ mst.st \in {"http", "backoff"} => calls.image = 0 /\ ImageCalled = {}
    /\ Cardinality(ImageCalled) = calls.image

Marks1 == {i \in 1..Len(fn.text) : IsMark1(fn.text[i])}

\* the text from position i on
From(i) == SubSeq(fn.text, i, Len(fn.text))

\* C14: extract_final_story returns the text from the LAST page-1 marker on
\* (nothing before it, nothing but trailing whitespace dropped after it), and
\* None when there is no marker; generate_full_story returns the pages parsed
\* from that part of the text alone, the same list for the same text
C14_LastMarker ==
    /\ fn.op = "extract_final_story" =>
         /\ fn.found <=> Marks1 # {}
         /\ fn.found =>
              /\ fn.story # <<>> /\ IsMark1(fn.story[1])
              /\ \A i \in 2..Len(fn.story) : ~IsMark1(fn.story[i])
              /\ ~IsSpace(fn.story[Len(fn.story)])
              /\ \E i \in Marks1 :
                   /\ \A j \in Marks1 : j <= i
                   /\ SubSeq(fn.text, i, i + Len(fn.story) - 1) = fn.story
                   /\ \A j \in (i + Len(fn.story))..Len(fn.text) : IsSpace(fn.text[j])
    /\ fn.op = "generate_full_story" =>
         /\ fn.raised <=> Marks1 = {}
         /\ \A i \in Marks1 :
              (\A j \in Marks1 : j <= i) =>
                 /\ fn.pages = story_to_pages_json(From(i))
                 /\ Len(fn.pages) <=
                      Cardinality({j \in i..Len(fn.text) : IsPageMark(fn.text[j])})
         /\ fn.pages = generate_full_story([ok |-> TRUE, content |-> fn.text]).pages

\* a text with an earlier draft: its page is not in the result
C14_Witness ==
    /\ fn.op = "generate_full_story" /\ Cardinality(Marks1) = 2 /\ ~fn.raised
    /\ Len(fn.pages) = 1 /\ Len(story_to_pages_json(fn.text)) = 2

\* no newline, no space at either end, no two spaces in a row
Normalized(t) ==
    /\ \A i \in 1..Len(t) : t[i] # "nl"
    /\ t # <<>> => t[1] # "sp" /\ t[Len(t)] # "sp"
    /\ \A i \in 1..(Len(t) - 1) : ~(t[i] = "sp" /\ t[i + 1] = "sp")

\* C15 as stated: a returned page list has the indices 1..N in order, N >= 1,
\* and every page's text is non-empty and whitespace-normalized
C15_Original ==
    (fn.op = "generate_full_story" /\ ~fn.raised) =>
        /\ Len(fn.pages) >= 1
        /\ \A k \in 1..Len(fn.pages) :
             /\ fn.pages[k].page = k
             /\ fn.pages[k].text # <<>>
             /\ Normalized(fn.pages[k].text)

\* C15 amended: in a returned page list every page's text is whitespace-
\* normalized and every page but the last has non-empty text; the list is
\* empty exactly when no page marker stands at or after the last page-1
\* marker; the first page has index 1 when that marker is a page marker, and
\* the indices are 1..N when the matched markers are numbered so
C15_PagesNormalized ==
    (fn.op = "generate_full_story" /\ ~fn.raised) =>
        /\ \A k \in 1..Len(fn.pages) :
             /\ Normalized(fn.pages[k].text)
             /\ k < Len(fn.pages) => fn.pages[k].text # <<>>
             /\ fn.pages[k].page \in 1..3
        /\ \A i \in Marks1 :
             (\A j \in Marks1 : j <= i) =>
                /\ fn.pages = <<>> <=> \A j \in i..Len(fn.text) : ~IsPageMark(fn.text[j])
                /\ IsPageMark(fn.text[i]) => fn.pages[1].page = 1

\* a text whose content holds a run of two spaces
C15_Witness ==
    /\ fn.op = "generate_full_story" /\ ~fn.raised
    /\ \E i \in 1..(Len(fn.text) - 1) : fn.text[i] = "sp" /\ fn.text[i + 1] = "sp"
    /\ Len(fn.pages) = 1 /\ fn.pages[1].text = <<"a", "sp", "a">>

\* the positions of the page markers in the text handed to the function
PageMarks == {i \in 1..Len(fn.text) : IsPageMark(fn.text[i])}

\* the markers that begin a page: the first marker of the text, and every
\* later marker that directly follows a newline, unless nothing but whitespace
\* lies between it and the marker that began the page before it
Starts ==
    LET st[i \in 0..Len(fn.text)] ==
            IF i = 0 THEN {}
            ELSE IF /\ IsPageMark(fn.text[i])
                    /\ \/ st[i - 1] = {}
                       \/ /\ fn.text[i - 1] = "nl"
                          /\ ~\E m \in st[i - 1] :
                                \A j \in (m + 1)..(i - 1) : IsSpace(fn.text[j])
                 THEN st[i - 1] \cup {i}
                 ELSE st[i - 1]
    IN  st[Len(fn.text)]

\* the k-th smallest member of a set of positions
Nth(S, k) == CHOOSE i \in S : Cardinality({j \in S : j <= i}) = k

\* C16 as stated: the i-th returned page carries the ordinal of the i-th
\* marker of the text
C16_Original ==
    fn.op = "story_to_pages_json" =>
        \A k \in 1..Len(fn.pages) :
            /\ k <= Cardinality(PageMarks)
            /\ fn.pages[k].page = Ordinal(fn.text[Nth(PageMarks, k)])

\* C16 amended: the i-th returned page carries, unrenumbered, the ordinal of
\* the i-th marker that begins a page, in the order of the text, whether the
\* ordinals are skipped, repeated or out of order; when every marker begins a
\* page this is the i-th marker of the text
C16_OrdinalsKept ==
    fn.op = "story_to_pages_json" =>
        /\ Len(fn.pages) = Cardinality(Starts)
        /\ \A k \in 1..Len(fn.pages) :
             fn.pages[k].page = Ordinal(fn.text[Nth(Starts, k)])
        /\ Starts = PageMarks =>
             \A k \in 1..Len(fn.pages) :
                 fn.pages[k].page = Ordinal(fn.text[Nth(PageMarks, k)])

\* ordinals out of order: page 2 before page 1
C16_Witness ==
    /\ fn.op = "story_to_pages_json" /\ Starts = PageMarks
    /\ Len(fn.pages) = 2 /\ fn.pages[1].page = 2 /\ fn.pages[2].page = 1

\* the position after the content of the k-th page: the next page start, or
\* the end of the text
StartAfter(k) ==
    IF k < Cardinality(Starts) THEN Nth(Starts, k + 1) ELSE Len(fn.text) + 1

\* does the text t hold a page marker
HoldsMarker(t) == \E i \in 1..Len(t) : IsPageMark(t[i])

\* C17 as stated: there are as many pages as page markers in the text, each
\* page's content running up to the next marker, so that no page's text holds
\* a marker
C17_Original ==
    fn.op = "story_to_pages_json" =>
        /\ Len(fn.pages) = Cardinality(PageMarks)
        /\ \A k \in 1..Len(fn.pages) : ~HoldsMarker(fn.pages[k].text)

\* C17 amended: there are as many pages as markers that begin a page (the
\* first marker, and each later one that directly follows a newline and is
\* not swallowed as content); a page's content runs from its marker to the
\* newline before the next such marker, or to the end of the text; every
\* other marker is part of a page's text
C17_ContentToNextLineMarker ==
    fn.op = "story_to_pages_json" =>
        /\ Len(fn.pages) = Cardinality(Starts)
        /\ Starts \subseteq PageMarks
        /\ \A k \in 1..Len(fn.pages) :
             /\ fn.pages[k].text =
                  JoinSplit(SubSeq(fn.text, Nth(Starts, k) + 1, StartAfter(k) - 1))
             /\ HoldsMarker(fn.pages[k].text) <=>
                  \E i \in PageMarks \ Starts : Nth(Starts, k) < i /\ i < StartAfter(k)
        /\ Starts = PageMarks <=>
             /\ Len(fn.pages) = Cardinality(PageMarks)
             /\ \A k \in 1..Len(fn.pages) : ~HoldsMarker(fn.pages[k].text)

\* two markers on one line: one page, the second marker in its text
C17_Witness ==
    /\ fn.op = "story_to_pages_json"
    /\ fn.text = <<"P1", "a", "sp", "P2", "a">>
    /\ fn.pages = <<[page |-> 1, text |-> <<"a", "sp", "P2", "a">>]>>

\* C18: page generation fails in each of three cases: the text back-end call
\* raises, the text holds no page-1 marker (generate_full_story raises), or
\* the parsed page list is empty (it returns []); stream_story turns each into
\* the single terminal error event, and a non-empty page list into the story
\* event
C18_GenerationFailed ==
    /\ pc = "text" =>
         \A resp \in BackendResponses :
            LET r == generate_full_story(resp)
                kind == Stage1Kind(resp)
            IN  /\ kind \in {"backend", "nomarker"} <=> r.raised
                /\ kind = "empty" <=> (~r.raised /\ r.pages = <<>>)
                /\ kind = "ok" <=> (~r.raised /\ r.pages # <<>>)
    /\ s1 \in {"backend", "nomarker", "empty"} =>
         /\ events = <<ErrorEvent>> /\ pc = "done"
         /\ story_pages = <<>> /\ Count("story") = 0
    /\ s1 = "ok" => story_pages # <<>> /\ events[1] = StoryEvent(story_pages)
    /\ pc \in {"start", "text"} <=> s1 = "pending"

C18_Witness ==
    /\ s1 = "nomarker" /\ events = <<ErrorEvent>> /\ calls.text = 1
    /\ \E resp \in BackendResponses :
         /\ Stage1Kind(resp) = "nomarker" /\ generate_full_story(resp).raised
         /\ story_to_pages_json(resp.content) # <<>>

\* C19 as stated: simple_split_story(text, n) returns exactly n strings for
\* every n >= 1 and every text, n copies of the placeholder when the text has
\* no non-blank line
C19_Original ==
    (fn.op = "simple_split_story" /\ fn.n >= 1) =>
        /\ Len(fn.scenes) = fn.n
        /\ NonBlankLines(fn.text) = <<>> =>
             fn.scenes = [i \in 1..fn.n |-> Placeholder]

\* C20: when the text has L non-blank lines, 0 < L < n, the result has n
\* elements and its element i (0-based) is the stripped non-blank line
\* i mod L
C20_CyclicPadding ==
    fn.op = "simple_split_story" =>
        LET lines == NonBlankLines(fn.text)
            L == Len(lines)
        IN  /\ \A k \in 1..L :
                 /\ lines[k] # <<>> /\ ~IsSpace(lines[k][1])
                 /\ ~IsSpace(lines[k][Len(lines[k])])
                 /\ \A j \in 1..Len(lines[k]) : lines[k][j] # "nl"
            /\ L = Cardinality({i \in 1..Len(fn.text) :
                                  /\ ~IsSpace(fn.text[i])
                                  /\ \A j \in 1..(i - 1) :
                                        ~IsSpace(fn.text[j])
                                        => \E m \in (j + 1)..(i - 1) : fn.text[m] = "nl"})
            /\ (0 < L /\ L < fn.n) =>
                 /\ Len(fn.scenes) = fn.n
                 /\ \A i \in 0..(fn.n - 1) : fn.scenes[i + 1] = lines[(i % L) + 1]

\* two different lines padded to three scenes
C20_Witness ==
    /\ fn.op = "simple_split_story" /\ fn.n = 3
    /\ Len(NonBlankLines(fn.text)) = 2
    /\ fn.scenes[1] # fn.scenes[2] /\ fn.scenes[3] = fn.scenes[1]

\* the positions of fn.text where a non-blank line has its first piece that is
\* not white space
LineStarts ==
    {i \in 1..Len(fn.text) :
        /\ ~IsSpace(fn.text[i])
        /\ \A j \in 1..(i - 1) :
              ~IsSpace(fn.text[j]) => \E m \in (j + 1)..(i - 1) : fn.text[m] = "nl"}

\* the last piece that is not white space of the line holding position i
LineStop(i) ==
    CHOOSE e \in i..Len(fn.text) :
        /\ ~IsSpace(fn.text[e])
        /\ \A m \in i..e : fn.text[m] # "nl"
        /\ \A j \in (e + 1)..Len(fn.text) :
              ~IsSpace(fn.text[j]) => \E m \in (e + 1)..j : fn.text[m] = "nl"

\* C21: simple_split_story drops blank lines: no element of a result is empty
\* or white space only, and when the text has at least n non-blank lines the
\* result is the first n of them, each stripped, in their order in the text
C21_FirstLinesKept ==
    fn.op = "simple_split_story" =>
        /\ \A k \in 1..Len(fn.scenes) :
              \E j \in 1..Len(fn.scenes[k]) : ~IsSpace(fn.scenes[k][j])
        /\ Cardinality(LineStarts) >= fn.n =>
              /\ Len(fn.scenes) = fn.n
              /\ \A k \in 1..fn.n :
                    LET i == Nth(LineStarts, k) IN
                    fn.scenes[k] = SubSeq(fn.text, i, LineStop(i))

\* three lines, the second one blank, split into two scenes
C21_Witness ==
    /\ fn.op = "simple_split_story" /\ fn.n = 2
    /\ fn.text = <<"a", "nl", "sp", "nl", "b">>
    /\ fn.scenes = <<<<"a">>, <<"b">>>>

\* the HTTP attempts of the call so far, the one in flight included
Attempts == Len(api.log) + (IF api.st = "http" THEN 1 ELSE 0)

ApiEnded == api.st \in {"returned", "raised"}

Transient == {"timeout", "reqerr", "500", "429"}

\* C22: a call of call_dedalus_api makes at most MAX_RETRIES HTTP attempts; a
\* 200 response ends it at once with a return; a transient failure ends it
\* only when it is the failure of the last attempt; and a call whose third
\* attempt failed raises, with no fourth attempt
C22_AttemptBudget ==
    /\ Attempts <= MAX_RETRIES
    /\ \A k \in 1..Len(api.log) :
          /\ api.log[k].outcome = "200" => k = Len(api.log) /\ api.st = "returned"
          /\ (api.log[k].outcome \in Transient /\ k < MAX_RETRIES) =>
                \/ k < Len(api.log)
                \/ api.st = "http"
                \/ api.st = "backoff" /\ ENABLED ApiRetry /\ ~ENABLED ApiExhausted
    /\ (Len(api.log) = MAX_RETRIES /\ Last(api.log).outcome # "200") =>
          \/ api.st = "raised"
          \/ api.st = "backoff" /\ ENABLED ApiExhausted /\ ~ENABLED ApiRetry
    /\ api.st = "returned" => Last(api.log).outcome = "200"

\* three transient failures of different kinds, then the exception
C22_Witness ==
    /\ api.st = "raised" /\ Len(api.log) = MAX_RETRIES
    /\ api.log[1].outcome = "timeout" /\ api.log[2].outcome = "500"
    /\ api.log[3].outcome = "429"

\* C23 as stated: after a 401 or a 400 response there is no further attempt
\* and the call has failed
C23_Original ==
    \A k \in 1..Len(api.log) :
        api.log[k].outcome \in {"401", "400"} =>
            k = Len(api.log) /\ api.st = "raised"

\* C24 as stated: the sleep after the failed 0-based attempt a lasts
\* RETRY_DELAY * 2^a, whatever the failure
C24_Original ==
    \A k \in 1..Len(api.log) :
        api.log[k].wait > 0 => api.log[k].wait = RETRY_DELAY * (2 ^ (k - 1))

\* the positions whose page reached the text-to-speech call
Spoken ==
    {p \in Positions : /\ task[p].aud.st \in {"tts", "done"}
                       /\ pages_to_process[p].text # <<>>}

\* C25 as stated: when a page's speech call has failed and its audio reference
\* is left empty, the call was made again for that page: there are more
\* text-to-speech calls than pages that reached the call
C25_Original ==
    \A p \in Spoken :
        (task[p].aud.st = "done" /\ ~task[p].aud.ok) =>
            calls.audio > Cardinality(Spoken)

\* C26 as stated: for a prompt that is empty or white space only no
\* text-generation call is made, whichever way the prompt came
C26_Original ==
    (ui.st # "none" /\ Strip(ui.prompt) = <<>>) => calls.text = 0

\* C27: Stage 2 leaves the pages as Stage 1 made them: the k-th scene event
\* carries the ordinal and the text of the k-th entry of the page list of the
\* story event, its scene_index is that ordinal less one, no entry has more
\* than one scene, and at complete every processed entry has exactly one
C27_PagesUntouched ==
    Len(Scenes) > 0 =>
        /\ events[1].type = "story"
        /\ Len(Scenes) <= Len(events[1].pages)
        /\ \A k \in 1..Len(Scenes) :
              /\ Scenes[k].page = events[1].pages[k].page
              /\ Scenes[k].scene_text = events[1].pages[k].text
              /\ Scenes[k].scene_index = events[1].pages[k].page - 1
        /\ Count("complete") > 0 => Len(Scenes) = Len(pages_to_process)

\* a completed run of two pages whose ordinals are not their positions
C27_Witness ==
    /\ Count("complete") = 1 /\ Len(Scenes) = 2
    /\ events[1].pages[1].page = 3 /\ events[1].pages[1].text # <<>>
    /\ Scenes[1].image_url # NoRef /\ Scenes[1].audio_url # NoRef

\* C28 as stated: once the story event has been emitted the run does not end
\* with an error event
C28_Original ==
    Count("story") > 0 => Count("error") = 0

\* C29: when every external call returns or fails, a run of stream_story
\* reaches its end with a terminal event, complete or error, as its last
\* event; and no call of call_dedalus_api goes past its last attempt
C29_Terminates ==
    /\ <>(pc = "done" /\ Len(events) > 0 /\ IsTerminal(Last(events)))
    /\ [](/\ mst.attempt < MAX_RETRIES
          /\ \A p \in Positions : task[p].img.attempt < MAX_RETRIES)

\* a run that ended with complete after the master call and both pages' image
\* calls failed
C29_Witness ==
    /\ pc = "done" /\ Last(events).type = "complete"
    /\ use_style_consistency /\ calls.master = 1 /\ calls.image = 2
    /\ Len(task) = 2 /\ ~task[1].img.ok /\ ~task[2].img.ok
    /\ pages_to_process[1].text # <<>> /\ pages_to_process[2].text # <<>>

MediaStarted == {p \in Positions : task[p].img.st # "idle" \/ task[p].aud.st # "idle"}

\* C32: the pages are taken as a queue in page-list order: when a media task
\* of the entry at position p exists, the scenes of the p - 1 entries before it
\* have been sent; the k-th scene sent is that of the k-th entry; and at most
\* one entry has an image or speech call in flight
C32_PageQueue ==
    /\ \A p \in MediaStarted :
          /\ Len(Scenes) >= p - 1
          /\ \A q \in 1..(p - 1) : task[q].st = "done"
    /\ {p \in Positions : task[p].st = "done"} = 1..Len(Scenes)
    /\ \A k \in 1..Len(Scenes) :
          /\ Scenes[k].page = pages_to_process[k].page
          /\ Scenes[k].scene_text = pages_to_process[k].text
    /\ Cardinality(MakingCalls) <= 1

\* the first scene is sent and the image call of the second entry is in flight
C32_Witness ==
    /\ Len(task) = 2 /\ Len(Scenes) = 1 /\ Last(events).type = "scene"
    /\ task[2].img.st = "http" /\ MakingCalls = {2}

\* C33: for num_images >= 0 and a list of N pages, the story event carries
\* all N pages, Stage 2 has a task for each of the first min(num_images, N)
\* entries and for no other, every media call is made for one of them, and a
\* run that completes has sent min(num_images, N) scenes
C33_FirstPagesOnly ==
    (num_images >= 0 /\ s1 = "ok") =>
        /\ events[1] = StoryEvent(story_pages) /\ Len(events[1].pages) = N
        /\ Len(task) = Min(num_images, N)
        /\ \A p \in Positions : pages_to_process[p] = story_pages[p]
        /\ calls.image <= Min(num_images, N) /\ calls.audio <= Min(num_images, N)
        /\ Len(Scenes) <= Min(num_images, N)
        /\ Count("complete") > 0 => Len(Scenes) = Min(num_images, N)

\* two pages, one of them asked for: the run completes with one scene
C33_Witness ==
    /\ Count("complete") = 1 /\ num_images = 1 /\ N = 2
    /\ Len(events[1].pages) = 2 /\ Len(Scenes) = 1 /\ calls.image = 1

\* the positions whose page has no text
EmptyPages == {p \in Positions : pages_to_process[p].text = <<>>}

\* C36: for a page without text no image call and no speech call is made and
\* both functions return the empty string; the page's scene is emitted all the
\* same, with both references empty
C36_EmptyPageNoCalls ==
    /\ \A p \in EmptyPages :
          /\ task[p].img.st \in {"idle", "sched", "done"}
          /\ task[p].aud.st \in {"idle", "sched", "done"}
          /\ task[p].img.prompt = NoPrompt
          /\ task[p].img.url = NoRef /\ task[p].aud.url = NoRef
          /\ ~task[p].img.exc /\ ~task[p].aud.exc
          /\ task[p].st = "done" =>
                /\ Scenes[p].page = pages_to_process[p].page
                /\ Scenes[p].scene_text = <<>>
                /\ Scenes[p].image_url = NoRef /\ Scenes[p].audio_url = NoRef
    /\ calls.image <= Cardinality(Positions \ EmptyPages)
    /\ calls.audio <= Cardinality(Positions \ EmptyPages)
    /\ Count("complete") > 0 => \A p \in EmptyPages : task[p].st = "done"

\* a completed run of two pages, the second without text: one image call, one
\* speech call, two scenes
C36_Witness ==
    /\ Count("complete") = 1 /\ Len(task) = 2 /\ EmptyPages = {2}
    /\ Len(Scenes) = 2 /\ Scenes[2].image_url = NoRef /\ Scenes[1].image_url # NoRef
    /\ calls.image = 1 /\ calls.audio = 1

\* C37 as stated: no wait follows the last attempt of a call, whatever it
\* failed with
C37_Original ==
    Len(api.log) = MAX_RETRIES => api.log[MAX_RETRIES].wait = 0

\* the references a log of scene calls yields, in the order of the log
RECURSIVE RefsOf(_)
RefsOf(log) ==
    IF log = <<>> THEN <<>>
    ELSE LET r == log[1].result
             ref == IF r \in {"b64", "url"} THEN <<ResponseRef(r)>> ELSE <<>>
         IN  ref \o RefsOf(Tail(log))

\* C38: generate_images does not raise and returns at most num_images
\* references; the scenes are called in order, a scene whose call fails is
\* left out and the scenes after it are still called; when the master-style
\* call fails no scene is called and the result is empty
C38_ScenesSkippedNotFatal ==
    /\ gen.st \in {"start", "master", "scenes", "returned"}
    /\ Len(gen.paths) <= gen.n
    /\ \A k \in 1..Len(gen.log) : gen.log[k].idx = k - 1
    /\ gen.paths = RefsOf(gen.log)
    /\ gen.master # "ok" => gen.log = <<>> /\ gen.paths = <<>>
    /\ (gen.st = "returned" /\ gen.master = "ok") =>
          Len(gen.log) = Len(gen.scenes) /\ Len(gen.scenes) <= gen.n

\* three scenes: the call of the second one raised, the third was still made
C38_Witness ==
    /\ gen.st = "returned" /\ gen.n = 3 /\ Len(gen.log) = 3
    /\ gen.log[1].result = "b64" /\ gen.log[2].result = "raise"
    /\ gen.log[3].result = "url" /\ Len(gen.paths) = 2

\* the events the frontend's loop has handled so far
Handled == SubSeq(ui.stream, 1, ui.pos)

Terminal(e) == e.type \in {"complete", "error"}

\* C34 (as stated): every scene event the frontend handles in a run against
\* the backend has scene_index in 0..NUM_SCENES-1, and the indexing of the
\* scenes list and of the placeholder list never fails
C34_Original ==
    ~ui.mock =>
        /\ ui.st # "crashed"
        /\ \A k \in 1..ui.pos :
              Handled[k].type = "scene"
                  => Handled[k].scene_index \in 0..(NUM_SCENES - 1)

\* C35: the frontend's loop handles nothing after the first complete or error
\* event and stops there; once Generate Story was pressed, story_complete is
\* true exactly when the last event handled is a complete event, so it is
\* false after an error event and after a stream that ended with no terminal
\* event
C35_StopsAtTerminal ==
    /\ \A k \in 1..(ui.pos - 1) : ~Terminal(Handled[k])
    /\ (ui.pos > 0 /\ Terminal(Handled[ui.pos])) => ui.st = "done"
    /\ ui.st \in {"requested", "done", "crashed"} =>
          (ui.story_complete <=> (ui.pos > 0 /\ Handled[ui.pos].type = "complete"))
    /\ ui.st = "done" =>
          \/ ui.pos > 0 /\ Terminal(Handled[ui.pos])
          \/ ui.pos = Len(ui.stream)

\* an error event ended the loop with an event of the stream left unread
C35_Witness ==
    /\ ui.st = "done" /\ ui.pos > 0 /\ ui.pos < Len(ui.stream)
    /\ Handled[ui.pos].type = "error"
    /\ ~ui.story_complete

\* the fields of the backend's events
BackendStoryFields == DOMAIN StoryEvent(<<>>)
BackendSceneFields == DOMAIN SceneEvent([page |-> 1, text |-> <<>>], NoRef, NoRef, <<>>)

\* C39 (as stated): the story and scene events of the mock stream have the
\* fields of the backend's story and scene events
C39_Original ==
    ui.mock =>
        \A k \in 1..ui.pos :
            /\ Handled[k].type = "story" => DOMAIN Handled[k] = BackendStoryFields
            /\ Handled[k].type = "scene" => DOMAIN Handled[k] = BackendSceneFields

\* media work of Stage 2 that was started and never ran to its end
CutShort(t) == t.img.st = "cancelled" \/ t.aud.st = "cancelled"

\* C31 (as stated): after the consumer disconnects no further event is
\* delivered, no scene is delivered in part, and the Stage-2 tasks in flight
\* run to completion (their results discarded): none of them is cut short
C31_Original ==
    conn.st = "gone" =>
        /\ conn.delivered <= Len(events)
        /\ \A k \in 1..conn.delivered : events[k].type \in {"story", "scene"}
        /\ \A p \in Positions : ~CutShort(task[p])

====
